---- MODULE Spec2Model ----
(***************************************************************************)
(* CutZero: SilenceRemover.run and MainWindow (src/CutZero1.py).           *)
(*                                                                         *)
(* Spec is one run of a worker, step by step.  GuiSpec is the window with  *)
(* the workers it starts, each worker seen through the signals it emits.   *)
(*                                                                         *)
(* Time is counted in ticks.  chunk_duration and duration are whole        *)
(* numbers of ticks, so the window starts np.arange(0, duration,           *)
(* chunk_duration) are 0, cd, 2cd, ... and the comparison                  *)
(* t - prev_time > chunk_duration * 1.5 is 2 * (t - prev_time) > 3 * cd.   *)
(* Levels and the threshold are whole numbers on one scale.  Paths are     *)
(* sequences of one-character strings.  Calls into moviepy either return   *)
(* or raise; which one is a nondeterministic choice.                       *)
(***************************************************************************)
EXTENDS Integers, Sequences, FiniteSets, TLC

MaxDuration == 5
MaxChunk == 2
MaxLevel == 2
MaxThreshold == 1
MaxRuns == 2
MaxSignals == 2

VARIABLES input_path, threshold, chunk_duration, is_audio_only,
          pc, opened, closes, duration, i, audio_chunks, nonsilent_chunks,
          clips, output_path, saved, events, final_media

\* MainWindow: widgets, the modal file dialog, the worker threads started so
\* far (self.worker is the last one) and the signals queued to the GUI
\* thread.
VARIABLES select_button, progress_bar_visible, progress_bar_value,
          status_label, dialog_open, threads, queue

runVars == <<input_path, threshold, chunk_duration, is_audio_only,
             pc, opened, closes, duration, i, audio_chunks, nonsilent_chunks,
             clips, output_path, saved, events, final_media>>

guiVars == <<select_button, progress_bar_visible, progress_bar_value,
             status_label, dialog_open, threads, queue>>

vars == <<runVars, guiVars>>

Max(a, b) == IF a >= b THEN a ELSE b

Min(a, b) == IF a <= b THEN a ELSE b

----------------------------------------------------------------------------
(* Strings: str.lower, str.endswith, os.path.splitext (posixpath).          *)

LowerChar(c) ==
    CASE c = "W" -> "w"
      [] c = "A" -> "a"
      [] c = "V" -> "v"
      [] c = "M" -> "m"
      [] c = "P" -> "p"
      [] OTHER -> c

Lower(s) == [k \in 1..Len(s) |-> LowerChar(s[k])]

EndsWith(s, suffix) ==
    /\ Len(suffix) <= Len(s)
    /\ SubSeq(s, Len(s) - Len(suffix) + 1, Len(s)) = suffix

AudioExts ==
    { <<".", "m", "p", "3">>, <<".", "w", "a", "v">>, <<".", "o", "g", "g">>,
      <<".", "f", "l", "a", "c">>, <<".", "a", "a", "c">> }

IsAudioOnly(path) == \E e \in AudioExts : EndsWith(Lower(path), e)

LastIndex(s, c) ==
    LET hits == {k \in 1..Len(s) : s[k] = c}
    IN  IF hits = {} THEN 0 ELSE CHOOSE k \in hits : \A m \in hits : m <= k

\* Index at which os.path.splitext cuts the path: the last dot of the last
\* component, unless only dots precede it there; Len + 1 when there is no
\* extension.
SplitIndex(p) ==
    LET sepIndex == LastIndex(p, "/")
        dotIndex == LastIndex(p, ".")
    IN  IF /\ dotIndex > sepIndex
           /\ \E k \in (sepIndex + 1)..(dotIndex - 1) : p[k] # "."
        THEN dotIndex
        ELSE Len(p) + 1

SplitextRoot(p) == SubSeq(p, 1, SplitIndex(p) - 1)

SplitextExt(p) == SubSeq(p, SplitIndex(p), Len(p))

NoSilence == <<"_", "n", "o", "_", "s", "i", "l", "e", "n", "c", "e">>

Mp4 == <<".", "m", "p", "4">>

OutputPath(path, audio_only) ==
    SplitextRoot(path) \o NoSilence \o
        (IF audio_only THEN SplitextExt(path) ELSE Mp4)

\* Input paths: f.wav, f.WaV, f.mov, f, f.t.mp3, .wav, d.x/f, d.x/.wav
Paths ==
    { <<"f", ".", "w", "a", "v">>,
      <<"f", ".", "W", "a", "V">>,
      <<"f", ".", "m", "o", "v">>,
      <<"f">>,
      <<"f", ".", "t", ".", "m", "p", "3">>,
      <<".", "w", "a", "v">>,
      <<"d", ".", "x", "/", "f">>,
      <<"d", ".", "x", "/", ".", "w", "a", "v">> }

----------------------------------------------------------------------------
(* Events sent to the progress sink.                                        *)

Progress(v) == [type |-> "progress", val |-> v]

Status(m) == [type |-> "status", msg |-> m]

Finished(p) == [type |-> "finished", path |-> p]

Error(m) == [type |-> "error", msg |-> m]

\* except Exception as e: self.error.emit(str(e)); run() returns.
Raise(m, evs) ==
    /\ events' = events \o evs \o <<Error(m)>>
    /\ pc' = "done"

NoAudioTrack == "No audio track found in the file!"

NoNonsilentAudio == "No non-silent parts found in the media!"

----------------------------------------------------------------------------
Label(text, arg) == [text |-> text, arg |-> arg]

\* MainWindow.__init__: the widgets as constructed, no worker yet.
GuiStart ==
    /\ select_button = TRUE
    /\ progress_bar_visible = FALSE
    /\ progress_bar_value = 0
    /\ status_label = Label("Select a video or audio file to begin", <<>>)
    /\ dialog_open = FALSE
    /\ threads = <<>>
    /\ queue = <<>>

\* One worker constructed for a path, run() about to start; the window is
\* left aside.
Init ==
    /\ input_path \in Paths
    /\ threshold \in 1..MaxThreshold
    /\ chunk_duration \in 1..MaxChunk
    /\ is_audio_only = IsAudioOnly(input_path)
    /\ pc = "load"
    /\ opened = FALSE
    /\ closes = 0
    /\ duration = 0
    /\ i = 0
    /\ audio_chunks = <<>>
    /\ nonsilent_chunks = <<>>
    /\ clips = <<>>
    /\ output_path = <<>>
    /\ saved = {}
    /\ events = <<>>
    /\ final_media = FALSE
    /\ GuiStart

\* AudioFileClip / VideoFileClip raises.
LoadFail ==
    /\ pc = "load"
    /\ Raise("open failed", <<Status("Loading media...")>>)
    /\ UNCHANGED <<guiVars, final_media, input_path, threshold, chunk_duration, is_audio_only,
                   opened, closes, duration, i, audio_chunks,
                   nonsilent_chunks, clips, output_path, saved>>

\* VideoFileClip opened, media.audio is None.
LoadNoAudio ==
    /\ pc = "load"
    /\ ~is_audio_only
    /\ opened' = TRUE
    /\ Raise(NoAudioTrack, <<Status("Loading media...")>>)
    /\ UNCHANGED <<guiVars, final_media, input_path, threshold, chunk_duration, is_audio_only,
                   closes, duration, i, audio_chunks,
                   nonsilent_chunks, clips, output_path, saved>>

LoadOk ==
    /\ pc = "load"
    /\ opened' = TRUE
    /\ duration' \in 0..MaxDuration
    /\ events' = events \o <<Status("Loading media..."), Progress(10),
                             Status("Analyzing audio...")>>
    /\ pc' = "analyze"
    /\ UNCHANGED <<guiVars, final_media, input_path, threshold, chunk_duration, is_audio_only,
                   closes, i, audio_chunks,
                   nonsilent_chunks, clips, output_path, saved>>

----------------------------------------------------------------------------
(* Analysis loop, lines 45-56.                                              *)

\* Variant: the partial last window is left out.
NumWindowsFloor(d, cd) == d \div cd

\* len(np.arange(0, duration, chunk_duration))
NumWindows(d, cd) == (d + cd - 1) \div cd

\* chunk_count = int(duration / self.chunk_duration)
ChunkCount(d, cd) == d \div cd

\* Variant: the analysis share scaled by 60 instead of 30.
ProgressOfWide(k, chunk_count) == 10 + ((k * 60) \div chunk_count)

\* Variant: the window counted from one instead of zero.
ProgressOfNext(k, chunk_count) == 10 + (((k + 1) * 30) \div chunk_count)

\* progress = 10 + int((i / chunk_count) * 30)
ProgressOf(k, chunk_count) == 10 + ((k * 30) \div chunk_count)

\* Lines 55-56 for window i, after the window's chunk has been handled.
LoopTail ==
    IF ChunkCount(duration, chunk_duration) = 0
    THEN /\ Raise("division by zero", <<>>)
         /\ i' = i
    ELSE /\ events' = Append(events,
                Progress(ProgressOf(i, ChunkCount(duration, chunk_duration))))
         /\ i' = i + 1
         /\ pc' = pc

\* subclip or to_soundarray raises.
AnalyzeFail ==
    /\ pc = "analyze"
    /\ i < NumWindows(duration, chunk_duration)
    /\ Raise("decode failed", <<>>)
    /\ UNCHANGED <<guiVars, final_media, input_path, threshold, chunk_duration, is_audio_only,
                   opened, closes, duration, i, audio_chunks,
                   nonsilent_chunks, clips, output_path, saved>>

\* media.subclip(t, end_t).audio is None: nothing is appended.
AnalyzeSkip ==
    /\ pc = "analyze"
    /\ i < NumWindows(duration, chunk_duration)
    /\ ~is_audio_only
    /\ LoopTail
    /\ UNCHANGED <<guiVars, final_media, input_path, threshold, chunk_duration, is_audio_only,
                   opened, closes, duration, audio_chunks,
                   nonsilent_chunks, clips, output_path, saved>>

AnalyzeLevel ==
    /\ pc = "analyze"
    /\ i < NumWindows(duration, chunk_duration)
    /\ \E volume \in 0..MaxLevel :
          audio_chunks' = Append(audio_chunks,
                                 [t |-> i * chunk_duration, volume |-> volume])
    /\ LoopTail
    /\ UNCHANGED <<guiVars, final_media, input_path, threshold, chunk_duration, is_audio_only,
                   opened, closes, duration,
                   nonsilent_chunks, clips, output_path, saved>>

----------------------------------------------------------------------------
(* Classification, lines 58-69.                                             *)

\* Variant: each non-silent time is put in front of the list.
ClassifyPrepend(chunks, th) ==
    LET loud == SelectSeq(chunks, LAMBDA c : c.volume > th)
    IN  [k \in 1..Len(loud) |-> loud[Len(loud) + 1 - k].t]

Classify(chunks, th) ==
    LET loud == SelectSeq(chunks, LAMBDA c : c.volume > th)
    IN  [k \in 1..Len(loud) |-> loud[k].t]

DetectEvents ==
    <<Status("Detecting silent parts..."), Progress(50),
      Status("Creating clips...")>>

Detect ==
    /\ pc = "analyze"
    /\ i = NumWindows(duration, chunk_duration)
    /\ nonsilent_chunks' = Classify(audio_chunks, threshold)
    /\ IF nonsilent_chunks' = <<>>
       THEN Raise(NoNonsilentAudio, DetectEvents)
       ELSE /\ events' = events \o DetectEvents
            /\ pc' = "clips"
    /\ UNCHANGED <<guiVars, final_media, input_path, threshold, chunk_duration, is_audio_only,
                   opened, closes, duration, i, audio_chunks,
                   clips, output_path, saved>>

----------------------------------------------------------------------------
(* Segment building, lines 71-91.                                           *)

\* Variant: tolerance of half a chunk.
GapExceededHalf(t, prev_time, cd) == 2 * (t - prev_time) > cd

\* Variant: a gap of exactly one and a half chunks also closes the run.
GapExceededOrEqual(t, prev_time, cd) == 2 * (t - prev_time) >= 3 * cd

\* t - prev_time > self.chunk_duration * 1.5
GapExceeded(t, prev_time, cd) == 2 * (t - prev_time) > 3 * cd

\* Variant: padding without clamping to the media bounds.
SubclipUnclamped(start_time, prev_time, cd, d) ==
    [start |-> start_time - cd, end |-> prev_time + cd]

\* media.subclip(max(0, start_time - cd), min(duration, prev_time + cd))
Subclip(start_time, prev_time, cd, d) ==
    [start |-> Max(0, start_time - cd), end |-> Min(d, prev_time + cd)]

RECURSIVE ClipLoop(_, _, _, _, _, _, _)
\* The for loop of lines 75-82 from index k on, then lines 85-88.
ClipLoop(times, k, acc, start_time, prev_time, cd, d) ==
    IF k > Len(times)
    THEN Append(acc, Subclip(start_time, prev_time, cd, d))
    ELSE IF GapExceeded(times[k], prev_time, cd)
         THEN ClipLoop(times, k + 1,
                       Append(acc, Subclip(start_time, prev_time, cd, d)),
                       times[k], times[k], cd, d)
         ELSE ClipLoop(times, k + 1, acc, start_time, times[k], cd, d)

\* Variant: the clip of the last run is not added.
BuildClipsNoLast(times, cd, d) ==
    LET all == ClipLoop(times, 2, <<>>, times[1], times[1], cd, d)
    IN  SubSeq(all, 1, Len(all) - 1)

BuildClips(times, cd, d) == ClipLoop(times, 2, <<>>, times[1], times[1], cd, d)

CreateClips ==
    /\ pc = "clips"
    /\ clips' = BuildClips(nonsilent_chunks, chunk_duration, duration)
    /\ events' = events \o <<Progress(70), Status("Combining clips...")>>
    /\ pc' = "save"
    /\ UNCHANGED <<guiVars, final_media, input_path, threshold, chunk_duration, is_audio_only,
                   opened, closes, duration, i, audio_chunks,
                   nonsilent_chunks, output_path, saved>>

\* One of the media.subclip calls raises; the clips before it were appended.
CreateClipsFail ==
    /\ pc = "clips"
    /\ \E k \in 0..(Len(BuildClips(nonsilent_chunks, chunk_duration, duration)) - 1) :
          clips' = SubSeq(BuildClips(nonsilent_chunks, chunk_duration, duration), 1, k)
    /\ Raise("subclip failed", <<>>)
    /\ UNCHANGED <<guiVars, final_media, input_path, threshold, chunk_duration, is_audio_only,
                   opened, closes, duration, i, audio_chunks,
                   nonsilent_chunks, output_path, saved>>

----------------------------------------------------------------------------
(* Assembly and save, lines 93-125.  clips is never empty here.             *)

SavingStatus ==
    Status(IF is_audio_only THEN "Saving audio..." ELSE "Saving video...")

\* concatenate_audioclips / concatenate_videoclips raises; line 94 has run.
ConcatFail ==
    /\ pc = "save"
    /\ clips # <<>>
    /\ output_path' = SplitextRoot(input_path) \o NoSilence
    /\ Raise("concatenate failed", <<>>)
    /\ UNCHANGED <<guiVars, final_media, input_path, threshold, chunk_duration, is_audio_only,
                   opened, closes, duration, i, audio_chunks,
                   nonsilent_chunks, clips, saved>>

\* Lines 94-97 or 94, 108: the concatenated clip is constructed.
Concat ==
    /\ pc = "save"
    /\ clips # <<>>
    /\ output_path' = SplitextRoot(input_path) \o NoSilence
    /\ final_media' = TRUE
    /\ pc' = "write"
    /\ UNCHANGED <<guiVars, input_path, threshold, chunk_duration, is_audio_only,
                   opened, closes, duration, i, audio_chunks,
                   nonsilent_chunks, clips, saved, events>>

\* write_audiofile / write_videofile raises.
SaveFail ==
    /\ pc = "write"
    /\ output_path' = OutputPath(input_path, is_audio_only)
    /\ Raise("write failed", <<SavingStatus>>)
    /\ UNCHANGED <<guiVars, final_media, input_path, threshold, chunk_duration, is_audio_only,
                   opened, closes, duration, i, audio_chunks,
                   nonsilent_chunks, clips, saved>>

\* Variant: the last progress value reported as soon as the file is written.
SaveOkEarly100 ==
    /\ pc = "write"
    /\ output_path' = OutputPath(input_path, is_audio_only)
    /\ saved' = saved \cup {output_path'}
    /\ events' = events \o <<SavingStatus, Progress(100)>>
    /\ pc' = "close_final"
    /\ UNCHANGED <<guiVars, final_media, input_path, threshold, chunk_duration, is_audio_only,
                   opened, closes, duration, i, audio_chunks,
                   nonsilent_chunks, clips>>

SaveOk ==
    /\ pc = "write"
    /\ output_path' = OutputPath(input_path, is_audio_only)
    /\ saved' = saved \cup {output_path'}
    /\ events' = Append(events, SavingStatus)
    /\ pc' = "close_final"
    /\ UNCHANGED <<guiVars, final_media, input_path, threshold, chunk_duration, is_audio_only,
                   opened, closes, duration, i, audio_chunks,
                   nonsilent_chunks, clips>>

\* final_media.close() raises.
CloseFinalFail ==
    /\ pc = "close_final"
    /\ Raise("close failed", <<>>)
    /\ UNCHANGED <<guiVars, final_media, input_path, threshold, chunk_duration, is_audio_only,
                   opened, closes, duration, i, audio_chunks,
                   nonsilent_chunks, clips, output_path, saved>>

CloseFinalOk ==
    /\ pc = "close_final"
    /\ pc' = "close_media"
    /\ UNCHANGED <<guiVars, final_media, input_path, threshold, chunk_duration, is_audio_only,
                   opened, closes, duration, i, audio_chunks,
                   nonsilent_chunks, clips, output_path, saved, events>>

\* media.close() raises.
CloseMediaFail ==
    /\ pc = "close_media"
    /\ closes' = closes + 1
    /\ Raise("close failed", <<>>)
    /\ UNCHANGED <<guiVars, final_media, input_path, threshold, chunk_duration, is_audio_only,
                   opened, duration, i, audio_chunks,
                   nonsilent_chunks, clips, output_path, saved>>

\* Variant: finished emitted before the last progress value.
CloseMediaSwapped ==
    /\ pc = "close_media"
    /\ closes' = closes + 1
    /\ events' = events \o <<Finished(output_path), Progress(100)>>
    /\ pc' = "done"
    /\ UNCHANGED <<guiVars, final_media, input_path, threshold, chunk_duration, is_audio_only,
                   opened, duration, i, audio_chunks,
                   nonsilent_chunks, clips, output_path, saved>>

CloseMedia ==
    /\ pc = "close_media"
    /\ closes' = closes + 1
    /\ events' = events \o <<Progress(100), Finished(output_path)>>
    /\ pc' = "done"
    /\ UNCHANGED <<guiVars, final_media, input_path, threshold, chunk_duration, is_audio_only,
                   opened, duration, i, audio_chunks,
                   nonsilent_chunks, clips, output_path, saved>>

----------------------------------------------------------------------------
Next ==
    \/ LoadFail
    \/ LoadNoAudio
    \/ LoadOk
    \/ AnalyzeFail
    \/ AnalyzeSkip
    \/ AnalyzeLevel
    \/ Detect
    \/ CreateClips
    \/ CreateClipsFail
    \/ ConcatFail
    \/ Concat
    \/ SaveFail
    \/ SaveOk
    \/ CloseFinalFail
    \/ CloseFinalOk
    \/ CloseMediaFail
    \/ CloseMedia

Spec == Init /\ [][Next]_vars

----------------------------------------------------------------------------
(* MainWindow, lines 130-224.  In GuiSpec a worker thread is seen through   *)
(* the signals it emits: progress and status signals, then finished or      *)
(* error as its last signal (C1).  Signals emitted in the worker thread     *)
(* are queued to the GUI thread and handled there in emission order.        *)

GuiPaths == { <<"f", ".", "w", "a", "v">>, <<"f", ".", "m", "o", "v">> }

\* The window as constructed; the fields of the single-run model are unused.
GuiInit ==
    /\ GuiStart
    /\ input_path = <<>>
    /\ threshold = 1
    /\ chunk_duration = 1
    /\ is_audio_only = FALSE
    /\ pc = "done"
    /\ opened = FALSE
    /\ closes = 0
    /\ duration = 0
    /\ i = 0
    /\ audio_chunks = <<>>
    /\ nonsilent_chunks = <<>>
    /\ clips = <<>>
    /\ output_path = <<>>
    /\ saved = {}
    /\ events = <<>>
    /\ final_media = FALSE

\* select_button.clicked -> select_media: the modal file dialog opens.
SelectMediaOpen ==
    /\ select_button
    /\ ~dialog_open
    /\ Len(threads) < MaxRuns
    /\ dialog_open' = TRUE
    /\ UNCHANGED <<runVars, select_button, progress_bar_visible,
                   progress_bar_value, status_label, threads, queue>>

\* Variant: the button is left enabled when the worker is started.
SelectMediaReturnEnabled ==
    /\ dialog_open
    /\ dialog_open' = FALSE
    /\ \E file_path \in GuiPaths \cup {<<>>} :
          IF file_path # <<>>
          THEN /\ status_label' = Label("Processing media...", <<>>)
               /\ select_button' = select_button
               /\ progress_bar_visible' = TRUE
               /\ progress_bar_value' = 0
               /\ threads' = Append(threads,
                      [pc |-> "running", sent |-> 0, path |-> file_path])
          ELSE UNCHANGED <<status_label, select_button, progress_bar_visible,
                          progress_bar_value, threads>>
    /\ UNCHANGED <<runVars, queue>>

\* getOpenFileName returns; lines 194-209 when a file was chosen.
SelectMediaReturn ==
    /\ dialog_open
    /\ dialog_open' = FALSE
    /\ \E file_path \in GuiPaths \cup {<<>>} :
          IF file_path # <<>>
          THEN /\ status_label' = Label("Processing media...", <<>>)
               /\ select_button' = FALSE
               /\ progress_bar_visible' = TRUE
               /\ progress_bar_value' = 0
               /\ threads' = Append(threads,
                      [pc |-> "running", sent |-> 0, path |-> file_path])
          ELSE UNCHANGED <<status_label, select_button, progress_bar_visible,
                          progress_bar_value, threads>>
    /\ UNCHANGED <<runVars, queue>>

\* A running worker emits a progress or status signal.
WorkerEmit(w) ==
    /\ threads[w].pc = "running"
    /\ threads[w].sent < MaxSignals
    /\ \E sig \in {Progress(10), Progress(100), Status("Loading media...")} :
          queue' = Append(queue, sig)
    /\ threads' = [threads EXCEPT ![w].sent = @ + 1]
    /\ UNCHANGED <<runVars, select_button, progress_bar_visible,
                   progress_bar_value, status_label, dialog_open>>

\* Line 125, then run() returns.
WorkerFinished(w) ==
    /\ threads[w].pc = "running"
    /\ queue' = Append(queue,
          Finished(OutputPath(threads[w].path, IsAudioOnly(threads[w].path))))
    /\ threads' = [threads EXCEPT ![w].pc = "ended"]
    /\ UNCHANGED <<runVars, select_button, progress_bar_visible,
                   progress_bar_value, status_label, dialog_open>>

\* Line 128, then run() returns.
WorkerError(w) ==
    /\ threads[w].pc = "running"
    /\ \E m \in {NoAudioTrack, NoNonsilentAudio} :
          queue' = Append(queue, Error(m))
    /\ threads' = [threads EXCEPT ![w].pc = "ended"]
    /\ UNCHANGED <<runVars, select_button, progress_bar_visible,
                   progress_bar_value, status_label, dialog_open>>

WorkerStep == \E w \in 1..Len(threads) :
                  WorkerEmit(w) \/ WorkerFinished(w) \/ WorkerError(w)

update_progress ==
    /\ queue # <<>>
    /\ Head(queue).type = "progress"
    /\ progress_bar_value' = Head(queue).val
    /\ queue' = Tail(queue)
    /\ UNCHANGED <<runVars, select_button, progress_bar_visible,
                   status_label, dialog_open, threads>>

update_status ==
    /\ queue # <<>>
    /\ Head(queue).type = "status"
    /\ status_label' = Label(Head(queue).msg, <<>>)
    /\ queue' = Tail(queue)
    /\ UNCHANGED <<runVars, select_button, progress_bar_visible,
                   progress_bar_value, dialog_open, threads>>

processing_finished ==
    /\ queue # <<>>
    /\ Head(queue).type = "finished"
    /\ status_label' = Label("Done! Saved as:", Head(queue).path)
    /\ select_button' = TRUE
    /\ queue' = Tail(queue)
    /\ UNCHANGED <<runVars, progress_bar_visible, progress_bar_value,
                   dialog_open, threads>>

\* Variant: the button is not enabled again after an error.
processing_error_locked ==
    /\ queue # <<>>
    /\ Head(queue).type = "error"
    /\ status_label' = Label("Error:", <<Head(queue).msg>>)
    /\ progress_bar_visible' = FALSE
    /\ queue' = Tail(queue)
    /\ UNCHANGED <<runVars, select_button, progress_bar_value, dialog_open,
                   threads>>

processing_error ==
    /\ queue # <<>>
    /\ Head(queue).type = "error"
    /\ status_label' = Label("Error:", <<Head(queue).msg>>)
    /\ select_button' = TRUE
    /\ progress_bar_visible' = FALSE
    /\ queue' = Tail(queue)
    /\ UNCHANGED <<runVars, progress_bar_value, dialog_open, threads>>

\* The GUI thread's event loop takes the next queued signal.
Deliver ==
    \/ update_progress
    \/ update_status
    \/ processing_finished
    \/ processing_error

GuiNext ==
    \/ SelectMediaOpen
    \/ SelectMediaReturn
    \/ \E w \in 1..Len(threads) : WorkerEmit(w)
    \/ \E w \in 1..Len(threads) : WorkerFinished(w)
    \/ \E w \in 1..Len(threads) : WorkerError(w)
    \/ update_progress
    \/ update_status
    \/ processing_finished
    \/ processing_error

GuiSpec == GuiInit /\ [][GuiNext]_vars

\* The worker thread keeps running and the event loop keeps taking signals.
GuiLive == GuiSpec /\ WF_vars(WorkerStep) /\ WF_vars(Deliver)

\* run() takes its steps.
LiveSpec == Spec /\ WF_vars(Next)

----------------------------------------------------------------------------
(* Properties.                                                              *)

Terminal(e) == e.type \in {"finished", "error"}

TerminalCount == Cardinality({k \in 1..Len(events) : Terminal(events[k])})

HasFinished == \E k \in 1..Len(events) : events[k].type = "finished"

\* Message of the error event the run ended with, "" when there is none.
ErrorMsg ==
    IF events # <<>> /\ events[Len(events)].type = "error"
    THEN events[Len(events)].msg
    ELSE ""

\* The media was opened with an audio track: line 37 was reached.
Loaded == \E k \in 1..Len(events) :
              events[k].type = "progress" /\ events[k].val = 10

ProgressValues ==
    LET ps == SelectSeq(events, LAMBDA e : e.type = "progress")
    IN  [k \in 1..Len(ps) |-> ps[k].val]

\* C1: a run that has ended has emitted exactly one terminal event
\* (finished or error), a run that has not ended has emitted none, and the
\* terminal event is the last event: no progress or status follows it.
C1_OneTerminalEvent ==
    /\ TerminalCount <= 1
    /\ (pc = "done") <=> (TerminalCount = 1)
    /\ TerminalCount = 1 => Terminal(events[Len(events)])

C1_Witness ==
    /\ pc = "done"
    /\ events[Len(events)].type = "finished"
    /\ events[Len(events) - 1] = Progress(100)

\* C2 (as claimed): when a run has ended and the media handle was opened in
\* it, media.close() has been called exactly once.
C2_ClosedExactlyOnce == (pc = "done" /\ opened) => closes = 1

\* C3: the values of the progress events of a run are non-decreasing in
\* emission order.
C3_ProgressNonDecreasing ==
    \A a, b \in 1..Len(ProgressValues) :
        a < b => ProgressValues[a] <= ProgressValues[b]

C3_Witness ==
    /\ pc = "done"
    /\ HasFinished
    /\ \E a \in 1..Len(ProgressValues) :
          ProgressValues[a] > 10 /\ ProgressValues[a] < 40
    /\ \E a \in 1..Len(ProgressValues) : ProgressValues[a] = 40

\* C4 (as claimed): a run on media with an audio track and
\* duration < chunk_duration, in which no decode fails, analyzes no window
\* and ends with the "no non-silent parts" error.
C4_ShortMediaNoNonsilent ==
    (/\ pc = "done"
     /\ Loaded
     /\ duration < chunk_duration
     /\ ErrorMsg # "decode failed")
    => (audio_chunks = <<>> /\ ErrorMsg = NoNonsilentAudio)

\* C5 (as claimed): a run in which every window of the media was analyzed
\* and has volume <= threshold ends with the "no non-silent parts" error, with
\* no clip extracted, nothing saved and no finished event.
C5_AllSilentNoNonsilent ==
    (/\ pc = "done"
     /\ Loaded
     /\ Len(audio_chunks) = NumWindows(duration, chunk_duration)
     /\ \A k \in 1..Len(audio_chunks) : audio_chunks[k].volume <= threshold)
    => (/\ ErrorMsg = NoNonsilentAudio
        /\ clips = <<>>
        /\ saved = {}
        /\ ~HasFinished)

\* C6 (as claimed): when a run has ended, finished was emitted if and only
\* if the output file was written; a run that ended with error wrote none.
C6_ResultIffSaved == pc = "done" => (HasFinished <=> saved # {})

C8_ClipsWithinMedia ==
    \A k \in 1..Len(clips) :
        /\ 0 <= clips[k].start
        /\ clips[k].start < clips[k].end
        /\ clips[k].end <= duration

\* A run starting in the first window and a run whose last window ends
\* exactly at duration.
C8_Witness ==
    /\ pc = "save"
    /\ nonsilent_chunks[1] = 0
    /\ clips[1].start = 0
    /\ nonsilent_chunks[Len(nonsilent_chunks)] + chunk_duration = duration
    /\ clips[Len(clips)].end = duration
    /\ Len(clips) >= 2

\* Indices at which a maximal run of times with successive differences
\* <= 1.5 * cd begins.
RunStarts(times, cd) ==
    {1} \cup {k \in 2..Len(times) : 2 * (times[k] - times[k - 1]) > 3 * cd}

\* Last index of the run beginning at index s.
RunEnd(times, cd, s) ==
    CHOOSE e \in s..Len(times) :
        /\ \A k \in (s + 1)..e : k \notin RunStarts(times, cd)
        /\ e = Len(times) \/ (e + 1) \in RunStarts(times, cd)

ExpectedClips(times, cd, d) ==
    LET starts == RunStarts(times, cd)
        nth(j) == CHOOSE s \in starts :
                      Cardinality({x \in starts : x <= s}) = j
    IN  [j \in 1..Cardinality(starts) |->
            [start |-> Max(0, times[nth(j)] - cd),
             end |-> Min(d, times[RunEnd(times, cd, nth(j))] + cd)]]

\* C9: once the segment-building loop has finished, clips holds exactly one
\* clip per maximal run of non-silent times whose successive differences
\* are <= 1.5 * chunk_duration, each [max(0, first - cd),
\* min(duration, last + cd)]; times 0,1,2,5,6 (in tenths, cd 1, duration 10)
\* give [0,3] and [4,7]; a difference of exactly 1.5 * cd keeps one run and
\* a greater one splits it.
C9_OneClipPerRun ==
    /\ pc \in {"save", "write", "close_final", "close_media"} =>
          clips = ExpectedClips(nonsilent_chunks, chunk_duration, duration)
    /\ BuildClips(<<0, 1, 2, 5, 6>>, 1, 10) =
          <<[start |-> 0, end |-> 3], [start |-> 4, end |-> 7]>>
    /\ BuildClips(<<0, 3>>, 2, 10) = <<[start |-> 0, end |-> 5]>>
    /\ BuildClips(<<0, 4>>, 2, 10) =
          <<[start |-> 0, end |-> 2], [start |-> 2, end |-> 6]>>

C9_Witness ==
    /\ pc = "save"
    /\ Len(clips) = 2
    /\ Len(nonsilent_chunks) = 4
    /\ chunk_duration = 1
    /\ nonsilent_chunks = <<0, 1, 3, 4>>

\* The output path as the naming rule states it: extension removed, then
\* "_no_silence", then the original extension when that extension is an
\* audio extension (case-insensitive) and ".mp4" otherwise.
ClaimedOutputPath(p) ==
    SplitextRoot(p) \o NoSilence \o
        (IF Lower(SplitextExt(p)) \in AudioExts THEN SplitextExt(p) ELSE Mp4)

\* C10 (as claimed): every file saved is saved at the path the naming rule
\* gives, and the path carried by finished is a path that was saved to.
C10_OutputPathRule ==
    /\ \A p \in saved : p = ClaimedOutputPath(input_path)
    /\ \A k \in 1..Len(events) :
          events[k].type = "finished" => events[k].path \in saved

\* Extensions of the file dialog's filter besides the audio ones.
VideoExts ==
    { <<".", "m", "p", "4">>, <<".", "a", "v", "i">>, <<".", "m", "k", "v">>,
      <<".", "m", "o", "v">> }

\* The path ends with neither a recognized audio extension nor a recognized
\* audio+video extension (case-insensitive).
Unsupported(p) ==
    ~ \E e \in AudioExts \cup VideoExts : EndsWith(Lower(p), e)

\* C11 (as claimed): a run on a path with an unrecognized extension never
\* opens the media and never analyzes it: it stays before the load or has
\* ended there with an error.
C11_UnsupportedRejected ==
    Unsupported(input_path) =>
        /\ ~opened
        /\ pc \in {"load", "done"}
        /\ audio_chunks = <<>>
        /\ ~HasFinished

\* The analysis loop has run to its end: line 58 was reached.
AnalysisDone ==
    \E k \in 1..Len(events) :
        events[k].type = "status" /\ events[k].msg = "Detecting silent parts..."

CeilDiv(d, cd) == IF d % cd = 0 THEN d \div cd ELSE (d \div cd) + 1

HasProgress(v) ==
    \E k \in 1..Len(events) : events[k].type = "progress" /\ events[k].val = v

\* C13 (as claimed): progress 70 has been emitted only if the concatenated
\* output clip has been constructed.
C13_SeventyAfterConcat == HasProgress(70) => final_media

\* C13 (amended): progress 70 is emitted after all segment clips have been
\* extracted and before the concatenated clip is constructed and before the
\* save starts; progress 100 is emitted only after the save has completed
\* and media.close() has returned.
C13_SeventyBeforeConcat ==
    /\ HasProgress(70) =>
          clips = BuildClips(nonsilent_chunks, chunk_duration, duration)
    /\ final_media => HasProgress(70)
    /\ \A a \in 1..Len(events) :
          (events[a].type = "status" /\ events[a].msg = SavingStatus.msg) =>
              \E b \in 1..(a - 1) :
                  events[b].type = "progress" /\ events[b].val = 70
    /\ saved # {} => HasProgress(70)
    /\ HasProgress(100) =>
          /\ final_media
          /\ saved = {output_path}
          /\ closes = 1

C13_Witness ==
    /\ pc = "done"
    /\ HasFinished
    /\ HasProgress(70)
    /\ HasProgress(100)
    /\ final_media

\* C14: every progress event emitted up to the end of the analysis loop
\* carries a value in 10..40, one event for the load and one per window
\* completed, also for the window after index int(duration / cd) - 1.
C14_AnalysisProgressRange ==
    pc = "analyze" =>
        /\ Len(ProgressValues) = 1 + i
        /\ \A k \in 1..Len(ProgressValues) :
              ProgressValues[k] >= 10 /\ ProgressValues[k] <= 40

\* The loop has completed one more window than int(duration / cd).
C14_Witness ==
    /\ pc = "analyze"
    /\ i = ChunkCount(duration, chunk_duration) + 1
    /\ ProgressValues[Len(ProgressValues)] = 40
    /\ Len(ProgressValues) >= 3

\* C15: a window without audio adds no chunk while its progress is still
\* reported (one progress event per completed window, at most one chunk per
\* window); the chunks are strictly ascending in start time; the non-silent
\* times are strictly ascending and are exactly the start times of the
\* chunks louder than the threshold, each the start of a window.
C15_NonsilentAscending ==
    /\ pc = "analyze" =>
          /\ Len(ProgressValues) = 1 + i
          /\ Len(audio_chunks) <= i
    /\ \A k \in 2..Len(audio_chunks) :
          audio_chunks[k - 1].t < audio_chunks[k].t
    /\ \A k \in 2..Len(nonsilent_chunks) :
          nonsilent_chunks[k - 1] < nonsilent_chunks[k]
    /\ \A k \in 1..Len(nonsilent_chunks) :
          /\ nonsilent_chunks[k] % chunk_duration = 0
          /\ nonsilent_chunks[k] < duration
          /\ \E j \in 1..Len(audio_chunks) :
                /\ audio_chunks[j].t = nonsilent_chunks[k]
                /\ audio_chunks[j].volume > threshold
    /\ AnalysisDone =>
          \A j \in 1..Len(audio_chunks) :
              audio_chunks[j].volume > threshold =>
                  \E k \in 1..Len(nonsilent_chunks) :
                      nonsilent_chunks[k] = audio_chunks[j].t

\* Window 1 had no audio; windows 0 and 2 are non-silent.
C15_Witness ==
    /\ pc = "save"
    /\ i = 3
    /\ Len(audio_chunks) = 2
    /\ nonsilent_chunks = <<0, 2 * chunk_duration>>
    /\ ~HasFinished

\* C16: once the non-silent check has passed and the clips are built there
\* is at least one clip; the save is reached with an output path derived;
\* finished is emitted only with the derived path, which has been saved.
C16_AtLeastOneClip ==
    /\ pc \in {"save", "write", "close_final", "close_media"} =>
          /\ nonsilent_chunks # <<>>
          /\ Len(clips) >= 1
    /\ pc \in {"write", "close_final", "close_media"} =>
          Len(output_path) >= Len(NoSilence)
    /\ \A k \in 1..Len(events) :
          events[k].type = "finished" =>
              /\ Len(clips) >= 1
              /\ events[k].path = output_path
              /\ EndsWith(SplitextRoot(output_path), NoSilence)
              /\ output_path \in saved

C16_Witness ==
    /\ pc = "done"
    /\ HasFinished
    /\ Len(nonsilent_chunks) = 1
    /\ Len(clips) = 1
    /\ saved = {output_path}

\* Workers whose run() has not returned.
Running == {w \in 1..Len(threads) : threads[w].pc = "running"}

TerminalPending ==
    \E k \in 1..Len(queue) : queue[k].type \in {"finished", "error"}

\* C17: at most one worker is running; while the select button is enabled
\* (or the file dialog it opened is up) no worker is running and no finished
\* or error signal is waiting to be handled; while it is disabled exactly
\* one run is active: running, or ended with its last signal still queued.
C17_OneWorkerInFlight ==
    /\ Cardinality(Running) <= 1
    /\ dialog_open => select_button
    /\ select_button => (Running = {} /\ ~TerminalPending /\ queue = <<>>)
    /\ ~select_button =>
          /\ Len(threads) >= 1
          /\ Running \subseteq {Len(threads)}
          /\ (Running = {}) <=> TerminalPending

\* A second run in flight after the first one was handled.
C17_Witness ==
    /\ Len(threads) = 2
    /\ threads[1].pc = "ended"
    /\ threads[2].pc = "running"
    /\ ~select_button
    /\ queue # <<>>

\* C18: whenever the select button is disabled it is eventually enabled
\* again.
C18_ButtonEnabledAgain == [](~select_button => <>select_button)

\* The button enabled again after a run that ended with error.
C18_Witness ==
    /\ select_button
    /\ status_label.text = "Error:"
    /\ ~progress_bar_visible
    /\ Len(threads) >= 1
    /\ Running = {}

\* Under LiveSpec every run() ends.
RunEnds == <>(pc = "done")
====
